---- MODULE Spec2Model ----
(***************************************************************************)
(* Kalshi synchronisation client: the API client wrapper (call,            *)
(* http_request), the fetch services, the record normalisers, the upsert   *)
(* repositories and the main synchronisation run.                          *)
(*                                                                         *)
(* Python values are tagged records [t |-> type, v |-> text]; an exception *)
(* is the outcome record of the operation that raised it.                  *)
(***************************************************************************)
EXTENDS Integers, Sequences, FiniteSets, TLC

VARIABLES
    apiKeyId,       \* settings.api_key_id is set
    privateKeyPem,  \* settings.read_private_key() returned PEM material
    authEnabled,    \* KalshiAPIClient._auth_enabled
    last,           \* what the last public operation did and how it ended
    table,          \* destination rows per repository: table[repo][key]
    pc,             \* main(): position
    cursor,         \* main(): cursor / market_cursor, by resource
    page,           \* main(): page / market_page, by resource
    total_rows,     \* main(): total_rows / market_total_rows, by resource
    server,         \* the exchange's pages per resource (environment)
    trace           \* main(): requests and saves issued so far

vars == <<apiKeyId, privateKeyPem, authEnabled, last, table,
          pc, cursor, page, total_rows, server, trace>>

clientVars == <<apiKeyId, privateKeyPem, authEnabled>>
mainVars == <<pc, cursor, page, total_rows, server, trace>>

-----------------------------------------------------------------------------
(* Python values *)

Null == [t |-> "null", v |-> ""]
PyStr(s) == [t |-> "str", v |-> s]
PyInt(s) == [t |-> "int", v |-> s]
PyFloat(s) == [t |-> "float", v |-> s]
PyBool(s) == [t |-> "bool", v |-> s]
PyList(s) == [t |-> "list", v |-> s]

\* bool(x): Python truthiness of a value
Truthy(x) ==
    ~ \/ x.t = "null"
      \/ x.t = "str" /\ x.v = ""
      \/ x.t = "int" /\ x.v = "0"
      \/ x.t = "float" /\ x.v = "0.0"
      \/ x.t = "bool" /\ x.v = "False"
      \/ x.t = "list" /\ x.v = "[]"

\* mapping.get(key): the value under key, None when the key is absent
Get(m, k) == IF k \in DOMAIN m THEN m[k] ELSE Null

\* How an operation ended
Returned == [kind |-> "return", exc |-> "none", cause |-> "none"]
Raised(e, c) == [kind |-> "raise", exc |-> e, cause |-> c]

NoParams == [k \in {} |-> Null]

-----------------------------------------------------------------------------
(* kalshi_client.py: KalshiAPIClient *)

\* The operations the SDK client exposes as attributes
SdkOperations ==
    {"get_series", "get_events", "get_events_without_preload_content",
     "get_markets", "get_markets_without_preload_content",
     "get_exchange_status"}

\* __init__ enabling authentication on either credential alone
either_enables(keyId, pem) == keyId \/ pem

\* __init__: authentication needs the key id and the private key together
InitAuthEnabled(keyId, pem) == keyId /\ pem

\* _resolve_operation reporting a missing operation as an API error
resolve_as_api_error(operation) ==
    IF operation \in SdkOperations
    THEN Returned
    ELSE Raised("KalshiAPIError", "AttributeError")

\* _resolve_operation: getattr(self._client, operation)
_resolve_operation(operation) ==
    IF operation \in SdkOperations
    THEN Returned
    ELSE Raised("AttributeError", "AttributeError")

\* _execute invoking the endpoint a second time after a failure
execute_retrying(operation, authenticated, params, reply) ==
    LET invocation == [operation |-> operation, params |-> params]
    IN  CASE reply.kind = "ok" ->
                [outcome |-> Returned,
                 response |-> reply.response,
                 logs |-> <<"started", "completed">>,
                 sdk |-> <<invocation>>]
          [] reply.kind = "ApiException" ->
                [outcome |-> Raised("KalshiAPIError", "ApiException"),
                 response |-> Null,
                 logs |-> <<"started", "failed">>,
                 sdk |-> <<invocation, invocation>>]
          [] OTHER ->
                [outcome |-> Raised(reply.kind, "none"),
                 response |-> Null,
                 logs |-> <<"started", "failed">>,
                 sdk |-> <<invocation, invocation>>]

\* _execute with the ApiException handler lost: the SDK's error escapes as is
execute_unwrapped(operation, authenticated, params, reply) ==
    LET invocation == [operation |-> operation, params |-> params]
    IN  IF reply.kind = "ok"
        THEN [outcome |-> Returned, response |-> reply.response,
              logs |-> <<"started", "completed">>, sdk |-> <<invocation>>]
        ELSE [outcome |-> Raised(reply.kind, "none"), response |-> Null,
              logs |-> <<"started", "failed">>, sdk |-> <<invocation>>]

\* _execute: start log, one invocation of the endpoint, one terminal log.
\* reply is what the endpoint does: [kind, response].
_execute(operation, authenticated, params, reply) ==
    LET invocation == [operation |-> operation, params |-> params]
    IN  CASE reply.kind = "ok" ->
                [outcome |-> Returned,
                 response |-> reply.response,
                 logs |-> <<"started", "completed">>,
                 sdk |-> <<invocation>>]
          [] reply.kind = "ApiException" ->
                [outcome |-> Raised("KalshiAPIError", "ApiException"),
                 response |-> Null,
                 logs |-> <<"started", "failed">>,
                 sdk |-> <<invocation>>]
          [] OTHER ->
                [outcome |-> Raised(reply.kind, "none"),
                 response |-> Null,
                 logs |-> <<"started", "failed">>,
                 sdk |-> <<invocation>>]

\* call with the credential check lost
call_unchecked(operation, authenticated, params, reply) ==
    IF _resolve_operation(operation).kind = "raise"
    THEN [outcome |-> _resolve_operation(operation),
          response |-> Null, logs |-> << >>, sdk |-> << >>]
    ELSE _execute(operation, authenticated, params, reply)

\* call checking the credentials before it resolves the operation
call_credentials_first(operation, authenticated, params, reply) ==
    IF authenticated /\ ~authEnabled
    THEN [outcome |-> Raised("AuthenticationConfigError", "none"),
          response |-> Null, logs |-> << >>, sdk |-> << >>]
    ELSE IF _resolve_operation(operation).kind = "raise"
    THEN [outcome |-> _resolve_operation(operation),
          response |-> Null, logs |-> << >>, sdk |-> << >>]
    ELSE _execute(operation, authenticated, params, reply)

\* call: resolve the operation, check the credentials, execute
call(operation, authenticated, params, reply) ==
    IF _resolve_operation(operation).kind = "raise"
    THEN [outcome |-> _resolve_operation(operation),
          response |-> Null, logs |-> << >>, sdk |-> << >>]
    ELSE IF authenticated /\ ~authEnabled
    THEN [outcome |-> Raised("AuthenticationConfigError", "none"),
          response |-> Null, logs |-> << >>, sdk |-> << >>]
    ELSE _execute(operation, authenticated, params, reply)

\* The method text left in the case the caller wrote it
method_as_given(method) == method

\* str.upper() on the method names in use
Upper(method) ==
    CASE method \in {"get", "Get", "GET"} -> "GET"
      [] method \in {"post", "POST"} -> "POST"
      [] OTHER -> method

\* str.lower() on a scheme token
Lower(token) ==
    CASE token \in {"HTTP://", "Http://", "http://"} -> "http://"
      [] token \in {"HTTPS://", "https://"} -> "https://"
      [] OTHER -> token

\* settings.host (URLs are token sequences: scheme, host, "/", segment, "?", query)
Host == <<"https://", "api.elections.kalshi.com", "/", "trade-api", "/", "v2">>

RECURSIVE lstrip(_)
\* str.lstrip("/")
lstrip(s) == IF s # << >> /\ Head(s) = "/" THEN lstrip(Tail(s)) ELSE s

RECURSIVE rstrip(_)
\* str.rstrip("/")
rstrip(s) ==
    IF s # << >> /\ s[Len(s)] = "/" THEN rstrip(SubSeq(s, 1, Len(s) - 1)) ELSE s

\* _prepare_url: an absolute URL is kept, a relative one is joined to the host
_prepare_url(url) ==
    IF url # << >> /\ Lower(Head(url)) \in {"http://", "https://"}
    THEN url
    ELSE rstrip(Host) \o <<"/">> \o lstrip(url)

RECURSIVE UpTo(_, _)
\* s.split(sep)[0]: the tokens before the first sep
UpTo(s, sep) ==
    IF s = << >> \/ Head(s) = sep THEN << >> ELSE <<Head(s)>> \o UpTo(Tail(s), sep)

\* urlparse(url).path of an absolute URL: what follows scheme and host, up to
\* the query
UrlPath(url) == UpTo(SubSeq(url, 3, Len(url)), "?")

\* _build_auth_headers signing the timestamp and the method only
sign_without_path(method, url, now, salt) ==
    IF ~apiKeyId \/ ~authEnabled
    THEN [outcome |-> Raised("AuthenticationConfigError", "none"),
          headers |-> [h \in {} |-> ""]]
    ELSE LET signature == [message |-> <<now, method>>, salt |-> salt]
         IN  [outcome |-> Returned,
              headers |->
                  [h \in {"KALSHI-ACCESS-KEY", "KALSHI-ACCESS-SIGNATURE",
                           "KALSHI-ACCESS-TIMESTAMP"} |->
                      CASE h = "KALSHI-ACCESS-KEY" ->
                               [text |-> "api_key_id", signature |-> << >>]
                        [] h = "KALSHI-ACCESS-SIGNATURE" ->
                               [text |-> "base64", signature |-> <<signature>>]
                        [] OTHER -> [text |-> now, signature |-> << >>]]]

\* _build_auth_headers: the three signed headers, or the configuration error.
\* now is time.time() in ms, salt the randomness PSS signing draws.
_build_auth_headers(method, url, now, salt) ==
    IF ~apiKeyId \/ ~authEnabled
    THEN [outcome |-> Raised("AuthenticationConfigError", "none"),
          headers |-> [h \in {} |-> ""]]
    ELSE LET path_no_query == UpTo(UrlPath(url), "?")
             message == <<now, method>> \o path_no_query
             signature == [message |-> message, salt |-> salt]
         IN  [outcome |-> Returned,
              headers |->
                  [h \in {"KALSHI-ACCESS-KEY", "KALSHI-ACCESS-SIGNATURE",
                           "KALSHI-ACCESS-TIMESTAMP"} |->
                      CASE h = "KALSHI-ACCESS-KEY" ->
                               [text |-> "api_key_id", signature |-> << >>]
                        [] h = "KALSHI-ACCESS-SIGNATURE" ->
                               [text |-> "base64", signature |-> <<signature>>]
                        [] OTHER -> [text |-> now, signature |-> << >>]]]

\* dict.update letting the entries already in a stand
update_keeping(a, b) ==
    [k \in DOMAIN a \cup DOMAIN b |-> IF k \in DOMAIN a THEN a[k] ELSE b[k]]

\* dict.update: the entries of b replace and extend those of a
Update(a, b) ==
    [k \in DOMAIN a \cup DOMAIN b |-> IF k \in DOMAIN b THEN b[k] ELSE a[k]]

\* Response.raise_for_status(): HTTPError for a 4xx or 5xx status
raise_for_status(status) == status >= 400 /\ status < 600

\* http_request: prepare url and headers, issue one request, map the outcome.
\* reply is what requests.request does: [kind, status].
http_request(method, url, authenticated, headers, reply, now, salt) ==
    LET prepared_url == _prepare_url(url)
        method_upper == Upper(method)
        signed == _build_auth_headers(method_upper, prepared_url, now, salt)
        request_headers ==
            IF authenticated THEN Update(headers, signed.headers) ELSE headers
        request == [method |-> method_upper, url |-> prepared_url,
                    headers |-> request_headers]
    IN  IF authenticated /\ ~authEnabled
        THEN [outcome |-> Raised("AuthenticationConfigError", "none"),
              status |-> 0, logs |-> << >>, http |-> << >>]
        ELSE IF authenticated /\ signed.outcome.kind = "raise"
        THEN [outcome |-> signed.outcome,
              status |-> 0, logs |-> << >>, http |-> << >>]
        ELSE CASE reply.kind = "response" /\ ~raise_for_status(reply.status) ->
                    [outcome |-> Returned, status |-> reply.status,
                     logs |-> <<"started", "completed">>, http |-> <<request>>]
              [] reply.kind = "response" \/ reply.kind = "RequestException" ->
                    [outcome |-> Raised("KalshiAPIError", "RequestException"),
                     status |-> 0,
                     logs |-> <<"started", "failed">>, http |-> <<request>>]
              [] OTHER ->
                    [outcome |-> Raised(reply.kind, "none"), status |-> 0,
                     logs |-> <<"started">>, http |-> <<request>>]

-----------------------------------------------------------------------------
(* models/: the record normalisers.  An API item is [shape, fields]: a typed *)
(* SDK object with attributes, or a mapping with keys.                       *)

\* item.<attribute>: AttributeError unless the item is an object that has it
Attr(item, attribute) ==
    IF item.shape = "object" /\ attribute \in DOMAIN item.fields
    THEN [outcome |-> Returned, value |-> item.fields[attribute]]
    ELSE [outcome |-> Raised("AttributeError", "none"), value |-> Null]

\* getattr(source, attribute, None) on every source, mappings included
getattr_only(source, attribute) ==
    IF source.shape = "mapping" THEN Null ELSE Get(source.fields, attribute)

\* _get_value: source.get(attribute) on a mapping, getattr(source, attribute,
\* None) on anything else
_get_value(source, attribute) == Get(source.fields, attribute)

\* str(value or "")
StrOrEmpty(value) == IF Truthy(value) THEN PyStr(value.v) ELSE PyStr("")

\* float(value): the text of the float, or the exception float() raises
FloatOf(value) ==
    CASE value.t = "float" -> [exc |-> "none", v |-> value.v]
      [] value.t = "int" /\ value.v = "7" -> [exc |-> "none", v |-> "7.0"]
      [] value.t = "int" /\ value.v = "0" -> [exc |-> "none", v |-> "0.0"]
      [] value.t = "int" -> [exc |-> "OverflowError", v |-> ""]
      [] value.t = "bool" ->
            [exc |-> "none", v |-> IF value.v = "True" THEN "1.0" ELSE "0.0"]
      [] value.t = "str" /\ value.v = "0.42" -> [exc |-> "none", v |-> "0.42"]
      [] value.t = "str" /\ value.v = "7" -> [exc |-> "none", v |-> "7.0"]
      [] value.t = "str" /\ value.v = "1e999" -> [exc |-> "none", v |-> "inf"]
      [] value.t = "str" -> [exc |-> "ValueError", v |-> ""]
      [] OTHER -> [exc |-> "TypeError", v |-> ""]

\* int(value): the text of the integer, or the exception int() raises
IntOf(value) ==
    CASE value.t = "int" -> [exc |-> "none", v |-> value.v]
      [] value.t = "float" /\ value.v = "0.42" -> [exc |-> "none", v |-> "0"]
      [] value.t = "float" /\ value.v = "7.0" -> [exc |-> "none", v |-> "7"]
      [] value.t = "float" /\ value.v = "inf" -> [exc |-> "OverflowError", v |-> ""]
      [] value.t = "float" -> [exc |-> "ValueError", v |-> ""]
      [] value.t = "bool" ->
            [exc |-> "none", v |-> IF value.v = "True" THEN "1" ELSE "0"]
      [] value.t = "str" /\ value.v = "7" -> [exc |-> "none", v |-> "7"]
      [] value.t = "str" -> [exc |-> "ValueError", v |-> ""]
      [] OTHER -> [exc |-> "TypeError", v |-> ""]

\* The exceptions _as_float and _as_int catch
Swallowed == {"TypeError", "ValueError"}

\* _as_float: None for None and for a swallowed error; other errors escape
_as_float(value) ==
    IF value.t = "null" THEN [outcome |-> Returned, value |-> Null]
    ELSE IF FloatOf(value).exc = "none"
    THEN [outcome |-> Returned, value |-> PyFloat(FloatOf(value).v)]
    ELSE IF FloatOf(value).exc \in Swallowed
    THEN [outcome |-> Returned, value |-> Null]
    ELSE [outcome |-> Raised(FloatOf(value).exc, "none"), value |-> Null]

\* _as_int: None for None and for a swallowed error; other errors escape
_as_int(value) ==
    IF value.t = "null" THEN [outcome |-> Returned, value |-> Null]
    ELSE IF IntOf(value).exc = "none"
    THEN [outcome |-> Returned, value |-> PyInt(IntOf(value).v)]
    ELSE IF IntOf(value).exc \in Swallowed
    THEN [outcome |-> Returned, value |-> Null]
    ELSE [outcome |-> Raised(IntOf(value).exc, "none"), value |-> Null]

\* _parse_datetime: a datetime is kept, an ISO-8601 string is parsed (a
\* trailing Z read as +00:00), anything else is None
_parse_datetime(value) ==
    CASE value.t = "datetime" -> value
      [] value.t = "str" /\ value.v = "2024-01-01T00:00:00Z" ->
            [t |-> "datetime", v |-> "2024-01-01T00:00:00+00:00"]
      [] value.t = "str" /\ value.v = "2024-01-01T00:00:00+00:00" ->
            [t |-> "datetime", v |-> "2024-01-01T00:00:00+00:00"]
      [] OTHER -> Null

\* The first failure among coercion results, Returned when none failed
FirstFailure(results) ==
    IF \E i \in DOMAIN results : results[i].outcome.kind = "raise"
    THEN results[CHOOSE i \in DOMAIN results :
                    /\ results[i].outcome.kind = "raise"
                    /\ \A j \in 1..(i - 1) : results[j].outcome.kind = "return"
                ].outcome
    ELSE Returned

NoRecord == [k \in {} |-> Null]

\* SeriesRecord.from_api: reads the item's attributes
SeriesRecord_from_api(item) ==
    LET reads == <<Attr(item, "ticker"), Attr(item, "title"),
                   Attr(item, "category"), Attr(item, "status")>>
    IN  IF FirstFailure(reads).kind = "raise"
        THEN [outcome |-> FirstFailure(reads), record |-> NoRecord]
        ELSE [outcome |-> Returned,
              record |->
                  [ticker |-> reads[1].value,
                   title |-> reads[2].value,
                   category |-> IF Truthy(reads[3].value)
                                THEN reads[3].value ELSE PyStr(""),
                   status |-> reads[4].value,
                   add_time |-> Null,
                   update_time |-> Null]]

\* EventRecord.from_api
EventRecord_from_api(item) ==
    [outcome |-> Returned,
     record |->
         [event_ticker |-> StrOrEmpty(_get_value(item, "event_ticker")),
          series_ticker |-> _get_value(item, "series_ticker"),
          sub_title |-> _get_value(item, "sub_title"),
          title |-> _get_value(item, "title"),
          status |-> _get_value(item, "status"),
          markets |-> _get_value(item, "markets"),
          add_time |-> Null,
          update_time |-> Null]]

\* MarketRecord.from_api
MarketRecord_from_api(item) ==
    LET yes_bid == _as_float(_get_value(item, "yes_bid"))
        yes_ask == _as_float(_get_value(item, "yes_ask"))
        no_bid == _as_float(_get_value(item, "no_bid"))
        no_ask == _as_float(_get_value(item, "no_ask"))
        last_price == _as_float(_get_value(item, "last_price"))
        volume == _as_int(_get_value(item, "volume"))
        volume_24h == _as_int(_get_value(item, "volume_24h"))
        cap_count == _as_int(_get_value(item, "cap_count"))
        coerced == <<yes_bid, yes_ask, no_bid, no_ask, last_price, volume,
                     volume_24h, cap_count>>
    IN  IF FirstFailure(coerced).kind = "raise"
        THEN [outcome |-> FirstFailure(coerced), record |-> NoRecord]
        ELSE [outcome |-> Returned,
              record |->
                  [ticker |-> StrOrEmpty(_get_value(item, "ticker")),
                   series_ticker |-> _get_value(item, "series_ticker"),
                   event_ticker |-> _get_value(item, "event_ticker"),
                   title |-> _get_value(item, "title"),
                   sub_title |-> IF Truthy(_get_value(item, "subtitle"))
                                 THEN _get_value(item, "subtitle")
                                 ELSE _get_value(item, "sub_title"),
                   status |-> _get_value(item, "status"),
                   open_time |-> _parse_datetime(_get_value(item, "open_time")),
                   close_time |-> _parse_datetime(_get_value(item, "close_time")),
                   expiration_time |->
                       _parse_datetime(_get_value(item, "expiration_time")),
                   yes_bid |-> yes_bid.value,
                   yes_ask |-> yes_ask.value,
                   no_bid |-> no_bid.value,
                   no_ask |-> no_ask.value,
                   last_price |-> last_price.value,
                   volume |-> volume.value,
                   volume_24h |-> volume_24h.value,
                   result |-> _get_value(item, "result"),
                   can_close_early |-> _get_value(item, "can_close_early"),
                   cap_count |-> cap_count.value,
                   add_time |-> Null,
                   update_time |-> Null]]

-----------------------------------------------------------------------------
(* services/: the fetch services.  A typed response carries items (None or   *)
(* a list), milestones and cursor; a raw response carries the unparsed body. *)

Items(seq) == [t |-> "items", v |-> seq]

\* x or []: the list, or the empty list for None and for an empty list
OrEmpty(x) == IF x.t = "items" THEN x.v ELSE << >>

\* The filters a service forwards: those of notNone that are not None and
\* those of truthy that are truthy
Forwarded(filters, notNone, truthy) ==
    [k \in {f \in notNone : Get(filters, f).t # "null"}
            \cup {f \in truthy : Truthy(Get(filters, f))} |-> filters[k]]

\* EventsService._build_params
Events_build_params(filters) ==
    Forwarded(filters,
              {"limit", "cursor", "with_nested_markets", "with_milestones",
               "min_close_ts"},
              {"status", "series_ticker"})

\* MarketsService._build_params
Markets_build_params(filters) ==
    Forwarded(filters,
              {"limit", "cursor", "max_close_ts", "min_close_ts"},
              {"event_ticker", "series_ticker", "status", "tickers"})

\* SeriesService.list_series: params
Series_build_params(filters) == Forwarded(filters, {}, {"status"})

\* json.loads(text): the document of a well-formed text, else JSONDecodeError
json_loads(text) ==
    IF text.wellformed
    THEN [exc |-> "none", payload |-> text.document]
    ELSE [exc |-> "JSONDecodeError", payload |-> Null]

EmptyDict == [t |-> "dict", v |-> [k \in {} |-> Null]]

\* _fetch_raw_events / _fetch_raw_markets letting JSONDecodeError escape
fetch_raw_propagating(operation, params, reply) ==
    LET got == call(operation, TRUE, params, reply)
        raw == got.response.data
        text == IF raw.t \in {"bytes", "str"} THEN raw.text
                ELSE [wellformed |-> FALSE, document |-> Null]
    IN  IF got.outcome.kind = "raise"
        THEN [outcome |-> got.outcome, payload |-> Null, sdk |-> got.sdk,
              decoded |-> FALSE]
        ELSE IF raw.t = "bytes" /\ ~raw.utf8
        THEN [outcome |-> Raised("UnicodeDecodeError", "none"),
              payload |-> Null, sdk |-> got.sdk, decoded |-> FALSE]
        ELSE IF json_loads(text).exc = "none"
        THEN [outcome |-> Returned, payload |-> json_loads(text).payload,
              sdk |-> got.sdk, decoded |-> TRUE]
        ELSE [outcome |-> Raised("JSONDecodeError", "none"), payload |-> Null,
              sdk |-> got.sdk, decoded |-> FALSE]

\* _fetch_raw_events / _fetch_raw_markets: the raw operation, then the body
\* decoded as UTF-8 JSON; {} when the text is not JSON
_fetch_raw(operation, params, reply) ==
    LET got == call(operation, TRUE, params, reply)
        raw == got.response.data
        text == IF raw.t \in {"bytes", "str"} THEN raw.text
                ELSE [wellformed |-> FALSE, document |-> Null]
    IN  IF got.outcome.kind = "raise"
        THEN [outcome |-> got.outcome, payload |-> Null, sdk |-> got.sdk,
              decoded |-> FALSE]
        ELSE IF raw.t = "bytes" /\ ~raw.utf8
        THEN [outcome |-> Raised("UnicodeDecodeError", "none"),
              payload |-> Null, sdk |-> got.sdk, decoded |-> FALSE]
        ELSE IF json_loads(text).exc = "none"
        THEN [outcome |-> Returned, payload |-> json_loads(text).payload,
              sdk |-> got.sdk, decoded |-> TRUE]
        ELSE [outcome |-> Returned, payload |-> EmptyDict, sdk |-> got.sdk,
              decoded |-> FALSE]

\* payload.get(key, default) if isinstance(payload, dict) else default
PayloadGet(payload, key, default) ==
    IF payload.t = "dict"
    THEN IF key \in DOMAIN payload.v THEN payload.v[key] ELSE default
    ELSE default

RECURSIVE MapFromApi(_, _)
\* [Record.from_api(item) for item in items]
MapFromApi(kind, items) ==
    IF items = << >>
    THEN [outcome |-> Returned, records |-> << >>]
    ELSE LET one == CASE kind = "series" -> SeriesRecord_from_api(Head(items))
                      [] kind = "events" -> EventRecord_from_api(Head(items))
                      [] OTHER -> MarketRecord_from_api(Head(items))
             rest == MapFromApi(kind, Tail(items))
         IN  IF one.outcome.kind = "raise"
             THEN [outcome |-> one.outcome, records |-> << >>]
             ELSE IF rest.outcome.kind = "raise"
             THEN rest
             ELSE [outcome |-> Returned, records |-> <<one.record>> \o rest.records]

\* The comprehension over a page's items: None is not iterable
Normalised(kind, items) ==
    IF items.t = "items"
    THEN MapFromApi(kind, items.v)
    ELSE [outcome |-> Raised("TypeError", "none"), records |-> << >>]

\* The result of a service call that raised
Failed(outcome, sdk, calls) ==
    [outcome |-> outcome, records |-> << >>, milestones |-> Null,
     cursor |-> Null, sdk |-> sdk, calls |-> calls]

\* list_event_records / list_market_records falling back to the raw call after
\* any failure of the typed call
list_records_always_falling_back(kind, filters, typed, raw) ==
    LET operation == IF kind = "events" THEN "get_events" ELSE "get_markets"
        fallback == IF kind = "events" THEN "get_events_without_preload_content"
                    ELSE "get_markets_without_preload_content"
        params == IF kind = "events" THEN Events_build_params(filters)
                  ELSE Markets_build_params(filters)
        first == call(operation, TRUE, params, typed)
        fetched == _fetch_raw(fallback, params,
                              IF raw.kind = "unused"
                              THEN [kind |-> "ApiException", response |-> Null]
                              ELSE raw)
    IN  IF first.outcome.kind = "return"
        THEN LET built == Normalised(kind, Items(OrEmpty(first.response.items)))
             IN  [outcome |-> built.outcome,
                  records |-> built.records,
                  milestones |-> Items(OrEmpty(first.response.milestones)),
                  cursor |-> first.response.cursor,
                  sdk |-> first.sdk,
                  calls |-> <<operation>>]
        ELSE IF fetched.outcome.kind = "raise"
        THEN Failed(fetched.outcome, first.sdk \o fetched.sdk,
                    <<operation, fallback>>)
        ELSE LET built == Normalised(kind,
                              PayloadGet(fetched.payload, kind, Items(<< >>)))
             IN  [outcome |-> built.outcome,
                  records |-> built.records,
                  milestones |-> PayloadGet(fetched.payload, "milestones",
                                            Items(<< >>)),
                  cursor |-> PayloadGet(fetched.payload, "cursor", Null),
                  sdk |-> first.sdk \o fetched.sdk,
                  calls |-> <<operation, fallback>>]

\* list_event_records / list_market_records: the typed call, the raw fallback
\* on a ValidationError, then normalisation.  kind is "events" or "markets";
\* calls are the operations handed to client.call, in order.
list_records(kind, filters, typed, raw) ==
    LET operation == IF kind = "events" THEN "get_events" ELSE "get_markets"
        fallback == IF kind = "events" THEN "get_events_without_preload_content"
                    ELSE "get_markets_without_preload_content"
        params == IF kind = "events" THEN Events_build_params(filters)
                  ELSE Markets_build_params(filters)
        first == call(operation, TRUE, params, typed)
        fetched == _fetch_raw(fallback, params, raw)
    IN  IF first.outcome.kind = "return"
        THEN LET built == Normalised(kind, Items(OrEmpty(first.response.items)))
             IN  [outcome |-> built.outcome,
                  records |-> built.records,
                  milestones |-> Items(OrEmpty(first.response.milestones)),
                  cursor |-> first.response.cursor,
                  sdk |-> first.sdk,
                  calls |-> <<operation>>]
        ELSE IF first.outcome.exc # "ValidationError"
        THEN Failed(first.outcome, first.sdk, <<operation>>)
        ELSE IF fetched.outcome.kind = "raise"
        THEN Failed(fetched.outcome, first.sdk \o fetched.sdk,
                    <<operation, fallback>>)
        ELSE LET built == Normalised(kind,
                              PayloadGet(fetched.payload, kind, Items(<< >>)))
             IN  [outcome |-> built.outcome,
                  records |-> built.records,
                  milestones |-> PayloadGet(fetched.payload, "milestones",
                                            Items(<< >>)),
                  cursor |-> PayloadGet(fetched.payload, "cursor", Null),
                  sdk |-> first.sdk \o fetched.sdk,
                  calls |-> <<operation, fallback>>]

\* EventsService.list_event_records
list_event_records(filters, typed, raw) == list_records("events", filters, typed, raw)

\* MarketsService.list_market_records
list_market_records(filters, typed, raw) == list_records("markets", filters, typed, raw)

\* SeriesService.list_series_records: one typed call, no fallback
list_series_records(filters, typed) ==
    LET first == call("get_series", TRUE, Series_build_params(filters), typed)
        built == Normalised("series", Items(OrEmpty(first.response.items)))
    IN  IF first.outcome.kind = "raise"
        THEN Failed(first.outcome, first.sdk, <<"get_series">>)
        ELSE [outcome |-> built.outcome,
              records |-> built.records,
              milestones |-> Null,
              cursor |-> Null,
              sdk |-> first.sdk,
              calls |-> <<"get_series">>]

-----------------------------------------------------------------------------
(* config.py and repositories/: settings and the upsert repositories.  A    *)
(* destination table is the sequence of its rows.                           *)

\* The fields KalshiSettings declares (undeclared input is ignored)
SettingsFields ==
    {"host", "api_key_id", "private_key_path", "log_level", "log_directory"}

\* The attributes a repository object has: its own and BaseSQLRepository's
RepositoryAttributes ==
    {"settings", "logger", "table_name", "save_many", "_connect",
     "insert_statement", "_build_row", "save_series", "save_events",
     "save_markets"}

Repositories == {"series", "events", "markets"}

\* The natural key column of each table
KeyOf(repo) == IF repo = "events" THEN "event_ticker" ELSE "ticker"

\* The columns WHEN MATCHED updates, besides UpdateTime
DataColumns(repo) ==
    CASE repo = "series" -> {"title", "category", "status"}
      [] repo = "events" -> {"title", "sub_title", "series_ticker"}
      [] OTHER ->
            {"event_ticker", "series_ticker", "title", "sub_title", "status",
             "open_time", "close_time", "expiration_time", "yes_bid",
             "yes_ask", "no_bid", "no_ask", "last_price", "volume",
             "volume_24h", "result", "can_close_early", "cap_count"}

\* _build_row: the key and data columns of the record, add_time and
\* update_time defaulting to now
_build_row(repo, record, now) ==
    [c \in {KeyOf(repo)} \cup DataColumns(repo) \cup {"add_time", "update_time"} |->
        IF c \in {"add_time", "update_time"}
        THEN IF Truthy(record[c]) THEN record[c] ELSE now
        ELSE record[c]]

\* insert_statement on one row: MERGE ... ON target.key = source.key WHEN
\* MATCHED THEN UPDATE ... WHEN NOT MATCHED THEN INSERT ...
Merge(repo, rows, row) ==
    LET key == KeyOf(repo)
        matched == {i \in DOMAIN rows :
                        row[key].t # "null" /\ rows[i][key] = row[key]}
        inserted == [c \in {key} \cup DataColumns(repo) \cup {"AddTime", "UpdateTime"} |->
                        CASE c = "AddTime" -> row.add_time
                          [] c = "UpdateTime" -> row.update_time
                          [] OTHER -> row[c]]
    IN  IF matched = {}
        THEN Append(rows, inserted)
        ELSE [i \in DOMAIN rows |->
                IF i \in matched
                THEN [c \in DOMAIN rows[i] |->
                        CASE c \in DataColumns(repo) -> row[c]
                          [] c = "UpdateTime" -> row.update_time
                          [] OTHER -> rows[i][c]]
                ELSE rows[i]]

RECURSIVE MergeAll(_, _, _)
\* cursor.executemany(statement, rows): the statement once per row, in order
MergeAll(repo, rows, batch) ==
    IF batch = << >> THEN rows
    ELSE MergeAll(repo, Merge(repo, rows, Head(batch)), Tail(batch))

\* _connect: reads settings.sqlserver_connection_string
_connect ==
    IF "sqlserver_connection_string" \in SettingsFields
    THEN Returned
    ELSE Raised("AttributeError", "none")

\* save_many: nothing for an empty batch; else one connection, the batch in
\* one transaction, commit; a pyodbc.Error rolls back and is re-raised as
\* DatabaseSaveError.  fault is where the storage fails: [at, row].
save_many(repo, rows, batch, fault) ==
    LET n == Len(batch)
        executed == IF fault.at = "row" /\ fault.row <= n THEN fault.row - 1 ELSE n
        failure == [outcome |-> Raised("DatabaseSaveError", "pyodbc.Error"),
                    count |-> 0, rows |-> rows]
    IN  IF batch = << >>
        THEN [outcome |-> Returned, count |-> 0, rows |-> rows, db |-> << >>]
        ELSE IF _connect.kind = "raise"
        THEN [outcome |-> _connect, count |-> 0, rows |-> rows, db |-> << >>]
        ELSE IF fault.at = "connect"
        THEN failure @@ [db |-> <<"connect failed">>]
        ELSE IF fault.at = "row" /\ fault.row <= n
        THEN failure @@
             [db |-> <<"connect">> \o [i \in 1..executed |-> "execute"]
                     \o <<"execute failed", "rollback">>]
        ELSE IF fault.at = "commit"
        THEN failure @@
             [db |-> <<"connect">> \o [i \in 1..n |-> "execute"]
                     \o <<"commit failed", "rollback">>]
        ELSE [outcome |-> Returned, count |-> n,
              rows |-> MergeAll(repo, rows, batch),
              db |-> <<"connect">> \o [i \in 1..n |-> "execute"] \o <<"commit">>]

\* [self._build_row(record) for record in records]
BuildRows(repo, records, now) ==
    [i \in DOMAIN records |-> _build_row(repo, records[i], now)]

\* self._executemany(statement, rows): the attribute is looked up first
_executemany(repo, rows, batch, fault) ==
    IF "_executemany" \in RepositoryAttributes
    THEN save_many(repo, rows, batch, fault)
    ELSE [outcome |-> Raised("AttributeError", "none"), count |-> 0,
          rows |-> rows, db |-> << >>]

\* save_series: builds the rows and hands them to _executemany
save_series(rows, records, now, fault) ==
    _executemany("series", rows, BuildRows("series", records, now), fault)

\* save_events / save_markets: 0 for no rows, else _executemany
save_checked(repo, rows, records, now, fault) ==
    IF BuildRows(repo, records, now) = << >>
    THEN [outcome |-> Returned, count |-> 0, rows |-> rows, db |-> << >>]
    ELSE _executemany(repo, rows, BuildRows(repo, records, now), fault)

\* save_series, save_events or save_markets, by repository
save(repo, rows, records, now, fault) ==
    IF repo = "series"
    THEN save_series(rows, records, now, fault)
    ELSE save_checked(repo, rows, records, now, fault)

-----------------------------------------------------------------------------
(* Bounds and input domains *)

MaxPages == 3           \* pages the exchange serves per resource
MaxPageItems == 2       \* items per page
MaxBatch == 2           \* records per batch saved directly

Shapes == {"object", "mapping"}

\* The items [shape, fields] whose fields map some of keys into values
ItemsOver(keys, values) ==
    {[shape |-> sh, fields |-> f] :
        sh \in Shapes, f \in UNION {[K -> values] : K \in SUBSET keys}}

SeriesItems ==
    ItemsOver({"ticker", "title", "category", "status"},
              {Null, PyStr("S1"), PyStr("")})

EventItems ==
    ItemsOver({"event_ticker", "series_ticker", "title", "markets"},
              {Null, PyStr("ABC-25"), PyStr("Test"), PyInt("7"),
               PyList("[M1]")})

MarketItems ==
    ItemsOver({"ticker", "yes_bid", "volume"},
              {Null, PyStr("M1"), PyStr("0.42"), PyStr("7"),
               PyStr("not-a-number"), PyInt("7"), PyInt("10**400"),
               PyFloat("0.42"), PyFloat("inf"), PyList("[]")})

Times == {[t |-> "datetime", v |-> "t1"], [t |-> "datetime", v |-> "t2"]}

\* The item the exchange holds at position i of page k of a resource
PageItem(kind, shape, k, i) ==
    LET ticker == PyStr(<<<<"A1", "A2", "A3">>, <<"B1", "B2", "B3">>,
                          <<"C1", "C2", "C3">>, <<"D1", "D2", "D3">>>>[k][i])
    IN  [shape |-> shape,
         fields |->
            CASE kind = "series" ->
                    [ticker |-> ticker, title |-> PyStr("Test"),
                     category |-> Null, status |-> PyStr("open")]
              [] kind = "events" ->
                    [event_ticker |-> ticker, title |-> PyStr("Test")]
              [] OTHER ->
                    [ticker |-> ticker, yes_bid |-> PyStr("0.42")]]

PageItems(kind, shape, k, n) == [i \in 1..n |-> PageItem(kind, shape, k, i)]

\* The cursor page k of a script of length len carries: None on the last page
CursorToken == <<"c1", "c2", "c3", "c4", "c5">>
PageCursor(k, len) == IF k < len THEN PyStr(CursorToken[k]) ELSE Null

\* The page a request with this cursor asks for
PageAsked(c) ==
    IF c.t = "null" THEN 1
    ELSE 1 + CHOOSE k \in DOMAIN CursorToken : CursorToken[k] = c.v

\* What the typed operation replies for page k of a script (counts per page)
TypedReply(kind, script, k, mode) ==
    CASE mode = "typed" ->
            [kind |-> "ok",
             response |->
                [items |-> Items(PageItems(kind, "object", k, script[k])),
                 milestones |-> Null,
                 cursor |-> PageCursor(k, Len(script))]]
      [] mode \in {"raw", "undecodable"} ->
            [kind |-> "ValidationError", response |-> Null]
      [] mode = "api_error" -> [kind |-> "ApiException", response |-> Null]
      [] OTHER -> [kind |-> "RuntimeError", response |-> Null]

\* What the raw operation replies for page k of a script
RawReply(kind, script, k, mode) ==
    [kind |-> "ok",
     response |->
        [data |->
            [t |-> "bytes", utf8 |-> TRUE,
             text |->
                IF mode = "undecodable"
                THEN [wellformed |-> FALSE, document |-> Null]
                ELSE [wellformed |-> TRUE,
                      document |->
                        [t |-> "dict",
                         v |-> (kind :> Items(PageItems(kind, "mapping", k, script[k])))
                               @@ [c \in {"cursor"} |-> PageCursor(k, Len(script))]]]]]]

Modes == {"typed", "raw", "undecodable", "api_error", "crash"}

Scripts == UNION {[1..len -> 0..MaxPageItems] : len \in 1..MaxPages}

Faults ==
    {[at |-> "none", row |-> 0], [at |-> "connect", row |-> 0],
     [at |-> "commit", row |-> 0]}
    \cup {[at |-> "row", row |-> r] : r \in 1..MaxBatch}

-----------------------------------------------------------------------------
(* State after construction, and one action per public operation *)

NoServer == [r \in Repositories |-> << >>]

\* The resources main() syncs page by page
Paged == {"events", "markets"}

Idle ==
    [op |-> "none", input |-> Null, outcome |-> Returned, value |-> Null,
     logs |-> << >>, sdk |-> << >>, http |-> << >>, db |-> << >>]

\* KalshiAPIClient(settings) and the three repositories over empty tables
Init ==
    /\ apiKeyId \in BOOLEAN
    /\ privateKeyPem \in BOOLEAN
    /\ authEnabled = InitAuthEnabled(apiKeyId, privateKeyPem)
    /\ last = Idle
    /\ table = [r \in Repositories |-> << >>]
    /\ pc = "idle"
    /\ cursor = [r \in Paged |-> Null]
    /\ page = [r \in Paged |-> 1]
    /\ total_rows = [r \in Paged |-> 0]
    /\ server = NoServer
    /\ trace = << >>

\* No operation is in progress: the next one can be invoked
Ready == last.op = "none"

OperationNames == SdkOperations \cup {"no_such_operation"}

CallParams == {NoParams, [k \in {"limit"} |-> PyInt("200")]}

CallReplies ==
    {[kind |-> "ok", response |-> r] : r \in {PyStr("body-a"), PyStr("body-b")}}
    \cup {[kind |-> k, response |-> Null] :
            k \in {"ApiException", "ValidationError", "RuntimeError", "AttributeError"}}

\* client.call(operation, authenticated=..., **params)
Call(operation, authenticated, params, reply) ==
    /\ Ready
    /\ \E done \in {call(operation, authenticated, params, reply)} :
        /\ last' = [op |-> "call",
                    input |-> [operation |-> operation,
                               authenticated |-> authenticated,
                               params |-> params, reply |-> reply],
                    outcome |-> done.outcome, value |-> done.response,
                    logs |-> done.logs, sdk |-> done.sdk,
                    http |-> << >>, db |-> << >>]
        /\ UNCHANGED <<clientVars, table, mainVars>>

Methods == {"get", "GET", "post"}

Urls ==
    {<<"/", "markets">>,
     <<"markets", "?", "limit=5">>,
     <<"HTTPS://", "other.example", "/", "x", "/", "y", "?", "z=1">>}

NoHeaders == [h \in {} |-> ""]

CallerHeaders ==
    {NoHeaders,
     [h \in {"KALSHI-ACCESS-KEY"} |-> [text |-> "caller", signature |-> << >>]]}

HttpReplies ==
    {[kind |-> "response", status |-> st] : st \in {100, 200, 204, 304, 404, 500}}
    \cup {[kind |-> k, status |-> 0] : k \in {"RequestException", "ValueError"}}

Clock == {"1700000000000", "1700000000001"}
Salts == {"salt-a", "salt-b"}

\* client.http_request(method, url, authenticated=..., headers=...)
HttpRequest(method, url, authenticated, headers, reply, now, salt) ==
    /\ Ready
    /\ \E done \in {http_request(method, url, authenticated, headers, reply, now, salt)} :
        /\ last' = [op |-> "http_request",
                    input |-> [method |-> method, url |-> url,
                               authenticated |-> authenticated,
                               headers |-> headers, reply |-> reply,
                               now |-> now],
                    outcome |-> done.outcome, value |-> done.status,
                    logs |-> done.logs, sdk |-> << >>,
                    http |-> done.http, db |-> << >>]
        /\ UNCHANGED <<clientVars, table, mainVars>>

\* What http_request hands to _build_auth_headers: the upper-cased method, the
\* prepared URL, and what the clock and the PSS salt generator give
SignInputs ==
    [method : {Upper(m) : m \in Methods},
     url : {_prepare_url(u) : u \in Urls},
     now : Clock,
     salt : Salts]

\* Two runs of client._build_auth_headers(method, url), one after the other
SignTwice(first, second) ==
    /\ Ready
    /\ \E one \in {_build_auth_headers(first.method, first.url, first.now, first.salt)},
          two \in {_build_auth_headers(second.method, second.url, second.now,
                                        second.salt)} :
        /\ last' = [op |-> "sign",
                    input |-> [first |-> first, second |-> second],
                    outcome |-> one.outcome,
                    value |-> [first |-> one.headers, second |-> two.headers],
                    logs |-> << >>, sdk |-> << >>, http |-> << >>, db |-> << >>]
        /\ UNCHANGED <<clientVars, table, mainVars>>

\* The caller takes the result (or the exception) of the finished operation;
\* the next operation can be invoked
Return ==
    /\ last.op # "none"
    /\ last' = Idle
    /\ UNCHANGED <<clientVars, table, mainVars>>

FromApiItems(kind) ==
    CASE kind = "series" -> SeriesItems
      [] kind = "events" -> EventItems
      [] OTHER -> MarketItems

\* SeriesRecord.from_api(item), EventRecord.from_api(item) or
\* MarketRecord.from_api(item)
FromApi(kind, item) ==
    /\ Ready
    /\ \E done \in {CASE kind = "series" -> SeriesRecord_from_api(item)
                  [] kind = "events" -> EventRecord_from_api(item)
                  [] OTHER -> MarketRecord_from_api(item)} :
        /\ last' = [op |-> "from_api",
                    input |-> [kind |-> kind, item |-> item],
                    outcome |-> done.outcome, value |-> done.record,
                    logs |-> << >>, sdk |-> << >>, http |-> << >>, db |-> << >>]
        /\ UNCHANGED <<clientVars, table, mainVars>>

\* The filters a caller passes: limit, cursor and status, each absent, None,
\* empty or set
FilterValues(k) ==
    IF k = "limit" THEN {Null, PyInt("200")}
    ELSE {Null, PyStr(""), PyStr(IF k = "cursor" THEN "c1" ELSE "open")}

FilterSets ==
    UNION {{f \in [K -> {Null, PyStr(""), PyStr("c1"), PyStr("open"), PyInt("200")}] :
                \A k \in K : f[k] \in FilterValues(k)} :
            K \in SUBSET {"limit", "cursor", "status"}}

Cursors == {Null, PyStr(""), PyStr("c1")}

\* What a typed operation can do when a service calls it
ServiceTyped(kind) ==
    {[kind |-> "ok",
      response |-> [items |-> i, milestones |-> Null, cursor |-> c]] :
        i \in {Null} \cup {Items(PageItems(kind, "object", 1, n)) : n \in 0..MaxPageItems},
        c \in Cursors}
    \cup {[kind |-> k, response |-> Null] :
            k \in {"ValidationError", "ApiException", "RuntimeError"}}

NotJson == [wellformed |-> FALSE, document |-> Null]
Json(document) == [wellformed |-> TRUE, document |-> document]

\* The documents a raw body can hold
RawDocuments(kind) ==
    {[t |-> "list", v |-> EmptyDict.v], EmptyDict,
     [t |-> "dict", v |-> [k \in {kind, "cursor"} |-> Null]]}
    \cup {[t |-> "dict",
           v |-> (kind :> Items(PageItems(kind, "mapping", 1, n)))
                 @@ [k \in {"cursor"} |-> c]] :
            n \in 0..MaxPageItems, c \in Cursors}

\* What a raw operation can do when a service calls it
ServiceRaw(kind) ==
    {[kind |-> "ok", response |-> [data |-> d]] :
        d \in {[t |-> "null", utf8 |-> TRUE, text |-> NotJson],
               [t |-> "bytes", utf8 |-> FALSE, text |-> NotJson],
               [t |-> "bytes", utf8 |-> TRUE, text |-> NotJson]}
              \cup {[t |-> "bytes", utf8 |-> TRUE, text |-> Json(doc)] :
                        doc \in RawDocuments(kind)}}
    \cup {[kind |-> k, response |-> Null] : k \in {"ApiException", "RuntimeError"}}

NoReply == [kind |-> "unused", response |-> Null]

\* The replies of the raw operation to consider after this typed reply: the raw
\* operation is reached only after a ValidationError
RawAfter(kind, typed) ==
    IF typed.kind = "ValidationError" THEN ServiceRaw(kind) ELSE {NoReply}

\* events_service.list_event_records(**filters),
\* markets_service.list_market_records(**filters) or
\* series_service.list_series_records()
ListRecords(kind, filters, typed, raw) ==
    /\ Ready
    /\ \E done \in {IF kind = "series"
                THEN list_series_records(filters, typed)
                ELSE list_records(kind, filters, typed, raw)} :
        /\ last' = [op |-> "list_records",
                    input |-> [kind |-> kind, filters |-> filters,
                               typed |-> typed, raw |-> raw],
                    outcome |-> done.outcome,
                    value |-> [records |-> done.records,
                               milestones |-> done.milestones,
                               cursor |-> done.cursor,
                               calls |-> done.calls],
                    logs |-> << >>, sdk |-> done.sdk, http |-> << >>,
                    db |-> << >>]
        /\ UNCHANGED <<clientVars, table, mainVars>>

\* The records a caller may hand to a repository: two keys, one of them with
\* two different titles
SampleRecords(repo) ==
    LET first == PageItem(repo, "object", 1, 1)
        second == PageItem(repo, "object", 1, 2)
        retitled == [first EXCEPT !.fields.title = PyStr("Other")]
    IN  CASE repo = "series" ->
                {SeriesRecord_from_api(i).record : i \in {first, second, retitled}}
          [] repo = "events" ->
                {EventRecord_from_api(i).record : i \in {first, second, retitled}}
          [] OTHER ->
                {MarketRecord_from_api(i).record : i \in {first, second, retitled}}

Batches(repo) == UNION {[1..n -> SampleRecords(repo)] : n \in 0..MaxBatch}

\* repository.save_series(records), save_events(records) or
\* save_markets(records)
Save(repo, records, now, fault) ==
    /\ Ready
    /\ \E done \in {save(repo, table[repo], records, now, fault)} :
        /\ last' = [op |-> "save",
                    input |-> [repo |-> repo, records |-> records,
                               now |-> now, fault |-> fault],
                    outcome |-> done.outcome, value |-> done.count,
                    logs |-> << >>, sdk |-> << >>, http |-> << >>,
                    db |-> done.db]
        /\ table' = [table EXCEPT ![repo] = done.rows]
        /\ UNCHANGED <<clientVars, mainVars>>

\* repository.save_many(rows)
SaveMany(repo, records, now, fault) ==
    /\ Ready
    /\ \E done \in {save_many(repo, table[repo], BuildRows(repo, records, now), fault)} :
        /\ last' = [op |-> "save_many",
                    input |-> [repo |-> repo, records |-> records,
                               now |-> now, fault |-> fault],
                    outcome |-> done.outcome, value |-> done.count,
                    logs |-> << >>, sdk |-> << >>, http |-> << >>,
                    db |-> done.db]
        /\ table' = [table EXCEPT ![repo] = done.rows]
        /\ UNCHANGED <<clientVars, mainVars>>

\* The API client under every sequence of call and http_request
Next ==
    \/ Return
    \/ /\ Ready
       /\ \E operation \in OperationNames, authenticated \in BOOLEAN,
             params \in CallParams, reply \in CallReplies :
               Call(operation, authenticated, params, reply)
    \/ /\ Ready
       /\ \E method \in Methods, url \in Urls, authenticated \in BOOLEAN,
             headers \in CallerHeaders, reply \in HttpReplies,
             now \in Clock, salt \in Salts :
               HttpRequest(method, url, authenticated, headers, reply, now, salt)

Spec == Init /\ [][Next]_vars

\* The signer on every pair of runs
SignNext ==
    \/ Return
    \/ /\ Ready
       /\ \E first \in SignInputs, second \in SignInputs : SignTwice(first, second)

SignSpec == Init /\ [][SignNext]_vars

\* The record normalisers on every item
RecordNext ==
    \/ Return
    \/ /\ Ready
       /\ \E kind \in Repositories : \E item \in FromApiItems(kind) :
               FromApi(kind, item)

RecordSpec == Init /\ [][RecordNext]_vars

\* The fetch services under every reply of the exchange
ServiceNext ==
    \/ Return
    \/ /\ Ready
       /\ \E kind \in Repositories, filters \in FilterSets :
             \E typed \in ServiceTyped(kind) : \E raw \in RawAfter(kind, typed) :
               ListRecords(kind, filters, typed, raw)

ServiceSpec == Init /\ [][ServiceNext]_vars

\* The repositories under every sequence of saves
RepoNext ==
    \/ Return
    \/ /\ Ready
       /\ \E repo \in Repositories, now \in Times, fault \in Faults :
             \E records \in Batches(repo) :
               Save(repo, records, now, fault)
    \/ /\ Ready
       /\ \E repo \in Repositories, now \in Times, fault \in Faults :
             \E records \in Batches(repo) :
               SaveMany(repo, records, now, fault)

RepoSpec == Init /\ [][RepoNext]_vars

-----------------------------------------------------------------------------
(* main.py: main(), one action per try block or loop iteration *)

\* The exchange serves one page of series and the same script of pages (the
\* item count of each page) for events and for markets
MainInit ==
    /\ apiKeyId \in BOOLEAN
    /\ privateKeyPem \in BOOLEAN
    /\ authEnabled = InitAuthEnabled(apiKeyId, privateKeyPem)
    /\ last = Idle
    /\ table = [r \in Repositories |-> << >>]
    /\ pc = "start"
    /\ cursor = [r \in Paged |-> Null]
    /\ page = [r \in Paged |-> 1]
    /\ total_rows = [r \in Paged |-> 0]
    /\ \E n \in 0..MaxPageItems, script \in Scripts :
            server = [r \in Repositories |-> IF r = "series" THEN <<n>> ELSE script]
    /\ trace = << >>

\* A trace entry: a fetch (with the cursor it asked with and how the exchange
\* behaved), a save, a completed loop or the final call
Event(act, resource, c, result, n, mode) ==
    [act |-> act, resource |-> resource, cursor |-> c, result |-> result,
     n |-> n, mode |-> mode]

\* Where a try block leaves main(): on, when it returned or raised one of the
\* exceptions its except clauses catch
AfterTry(outcome, handled, next) ==
    IF outcome.kind = "return" \/ outcome.exc \in handled THEN next ELSE "crashed"

ResultOf(outcome) == IF outcome.kind = "return" THEN "ok" ELSE outcome.exc

\* The exceptions the three sync try blocks catch
SyncHandled == {"KalshiAPIError", "DatabaseSaveError"}

\* if client.auth_enabled: ... else: logger.warning(...)
MainStart ==
    /\ pc = "start"
    /\ pc' = IF authEnabled THEN "series" ELSE "status"
    /\ UNCHANGED <<clientVars, last, table, cursor, page, total_rows, server, trace>>

\* The series try block: list_series_records, then save_series
MainSeries(mode, now, fault) ==
    /\ pc = "series"
    /\ \E fetched \in {list_series_records(NoParams,
                            TypedReply("series", server["series"], 1, mode))} :
         IF fetched.outcome.kind = "raise"
         THEN /\ pc' = AfterTry(fetched.outcome, SyncHandled, "events")
              /\ trace' = Append(trace, Event("fetch", "series", Null,
                                             ResultOf(fetched.outcome), 0, mode))
              /\ table' = table
         ELSE \E saved \in {save("series", table["series"], fetched.records,
                                  now, fault)} :
              /\ pc' = AfterTry(saved.outcome, SyncHandled, "events")
              /\ trace' = trace \o
                    <<Event("fetch", "series", Null, "ok", Len(fetched.records), mode),
                      Event("save", "series", Null, ResultOf(saved.outcome),
                            saved.count, "none")>>
              /\ table' = [table EXCEPT !["series"] = saved.rows]
    /\ UNCHANGED <<clientVars, last, cursor, page, total_rows, server>>

\* The filters main() passes to a paged service
MainFilters(r, c) ==
    IF r = "events"
    THEN [k \in {"limit", "cursor", "with_nested_markets"} |->
            CASE k = "limit" -> PyInt("200")
              [] k = "cursor" -> c
              [] OTHER -> PyBool("False")]
    ELSE [k \in {"limit", "cursor"} |->
            IF k = "limit" THEN PyInt("1000") ELSE c]

\* One iteration of the events loop or of the markets loop: fetch the page the
\* cursor asks for, save its records if any, stop on a falsy cursor
MainPage(r, next, mode, now, fault) ==
    /\ pc = r
    /\ PageAsked(cursor[r]) <= Len(server[r])
    /\ \E fetched \in
            {list_records(r, MainFilters(r, cursor[r]),
                          TypedReply(r, server[r], PageAsked(cursor[r]), mode),
                          RawReply(r, server[r], PageAsked(cursor[r]), mode))} :
         IF fetched.outcome.kind = "raise"
         THEN /\ pc' = AfterTry(fetched.outcome, SyncHandled, next)
              /\ trace' = Append(trace, Event("fetch", r, cursor[r],
                                             ResultOf(fetched.outcome), 0, mode))
              /\ UNCHANGED <<table, cursor, page, total_rows>>
         ELSE \E saved \in
                {IF fetched.records = << >>
                 THEN [outcome |-> Returned, count |-> 0, rows |-> table[r],
                       db |-> << >>]
                 ELSE save(r, table[r], fetched.records, now, fault)} :
              LET fetch == Event("fetch", r, cursor[r], "ok",
                                   Len(fetched.records), mode)
                  saving == IF fetched.records = << >> THEN << >>
                            ELSE <<Event("save", r, Null, ResultOf(saved.outcome),
                                         saved.count, "none")>>
                  more == Truthy(fetched.cursor)
              IN  /\ cursor' = [cursor EXCEPT ![r] = fetched.cursor]
                  /\ table' = [table EXCEPT ![r] = saved.rows]
                  /\ IF saved.outcome.kind = "raise"
                     THEN /\ pc' = AfterTry(saved.outcome, SyncHandled, next)
                          /\ trace' = trace \o <<fetch>> \o saving
                          /\ UNCHANGED <<page, total_rows>>
                     ELSE /\ total_rows' =
                                [total_rows EXCEPT ![r] = @ + saved.count]
                          /\ page' = [page EXCEPT ![r] =
                                IF r = "events" \/ more THEN @ + 1 ELSE @]
                          /\ pc' = IF more THEN r ELSE next
                          /\ trace' = trace \o <<fetch>> \o saving \o
                                (IF more THEN << >>
                                 ELSE <<Event("completed", r, Null, "ok",
                                              total_rows[r] + saved.count,
                                              "none")>>)
    /\ UNCHANGED <<clientVars, last, server>>

\* The final try block: client.call("get_exchange_status", authenticated=False)
MainStatus(reply) ==
    /\ pc = "status"
    /\ \E done \in {call("get_exchange_status", FALSE, NoParams, reply)} :
        /\ pc' = AfterTry(done.outcome,
                          {"AttributeError", "KalshiAPIError",
                           "AuthenticationConfigError"}, "done")
        /\ trace' = Append(trace, Event("call", "get_exchange_status", Null,
                                       ResultOf(done.outcome), 0, "none"))
    /\ UNCHANGED <<clientVars, last, table, cursor, page, total_rows, server>>

MainNext ==
    \/ MainStart
    \/ \E mode \in Modes, now \in Times, fault \in Faults :
            MainSeries(mode, now, fault)
    \/ \E mode \in Modes, now \in Times, fault \in Faults :
            MainPage("events", "markets", mode, now, fault)
    \/ \E mode \in Modes, now \in Times, fault \in Faults :
            MainPage("markets", "status", mode, now, fault)
    \/ \E reply \in CallReplies : MainStatus(reply)

\* One run of main() against every exchange and storage behaviour
MainSpec == MainInit /\ [][MainNext]_vars

-----------------------------------------------------------------------------
(* Properties *)

\* An authenticated invocation on a client built without credentials
Unauthenticated ==
    /\ last.op \in {"call", "http_request"}
    /\ last.input.authenticated
    /\ ~authEnabled

\* C1 as the specification states it: an authenticated call or http_request
\* on a client without credentials raises AuthenticationConfigError and makes
\* no network request, for every operation name and every URL.
C1_AnyOperationName ==
    Unauthenticated =>
        /\ last.outcome = Raised("AuthenticationConfigError", "none")
        /\ last.sdk = << >>
        /\ last.http = << >>

\* C1, amended: an authenticated call or http_request on a client without
\* credentials makes no network request for any operation name or URL; it
\* raises AuthenticationConfigError for every URL and for every operation
\* name the SDK exposes, and AttributeError for a name the SDK does not expose.
C1_ExposedOperationName ==
    Unauthenticated =>
        /\ last.sdk = << >>
        /\ last.http = << >>
        /\ last.logs = << >>
        /\ last.outcome =
                IF last.op = "call" /\ last.input.operation \notin SdkOperations
                THEN Raised("AttributeError", "AttributeError")
                ELSE Raised("AuthenticationConfigError", "none")

\* An authenticated call of an exposed operation was refused for want of
\* credentials
C1_Refused ==
    /\ Unauthenticated
    /\ last.op = "call"
    /\ last.input.operation \in SdkOperations
    /\ last.input.reply.kind = "ok"
    /\ last.outcome.exc = "AuthenticationConfigError"

\* A typed call that failed schema validation while the raw call answers
ValidationFailed ==
    /\ last.op = "list_records"
    /\ authEnabled
    /\ last.input.typed.kind = "ValidationError"
    /\ last.input.raw.kind = "ok"

\* C2: when the typed call of events, markets or series fails schema
\* validation, the service invokes the raw variant with the same parameters and
\* returns the raw result (the empty result if the body is not JSON); the
\* validation error never reaches the caller.
C2_FallbackToRaw ==
    ValidationFailed =>
        /\ last.outcome.exc # "ValidationError"
        /\ Len(last.sdk) = 2
        /\ last.sdk[2].params = last.sdk[1].params
        /\ (/\ last.input.raw.response.data.t = "bytes"
            /\ last.input.raw.response.data.utf8
            /\ ~last.input.raw.response.data.text.wellformed)
           => /\ last.outcome = Returned
              /\ last.value.records = << >>
              /\ last.value.cursor = Null

\* The validation error of a series call reached the caller
C2_SeriesPropagates ==
    /\ ValidationFailed
    /\ last.input.kind = "series"
    /\ last.outcome.exc = "ValidationError"

\* The fetches main() made of a resource, in order
FetchesOf(r) ==
    SelectSeq(trace, LAMBDA e : e.act = "fetch" /\ e.resource = r)

RECURSIVE Sum(_)
Sum(counts) == IF counts = << >> THEN 0 ELSE Head(counts) + Sum(Tail(counts))

\* main() is past the loop of r, having entered it, and the exchange served
\* every page it was asked for
LoopOver(r) ==
    /\ pc \notin {"start", "series", r}
    /\ FetchesOf(r) # << >>
    /\ \A i \in DOMAIN FetchesOf(r) : FetchesOf(r)[i].mode = "typed"

\* C3: against an exchange serving N pages (pages 1..N-1 with a cursor, page N
\* without), each pagination loop of main() ends after exactly N requests, asks
\* for page k+1 with the cursor of page k, and the total it reports is the sum
\* of the page sizes.
C3_PaginationCompletes ==
    \A r \in Paged :
        LoopOver(r) =>
            /\ Len(FetchesOf(r)) = Len(server[r])
            /\ \A k \in DOMAIN FetchesOf(r) :
                    FetchesOf(r)[k].cursor =
                        IF k = 1 THEN Null ELSE PageCursor(k - 1, Len(server[r]))
            /\ \E i \in DOMAIN trace :
                    /\ trace[i].act = "completed"
                    /\ trace[i].resource = r
                    /\ trace[i].n = Sum(server[r])

\* main() stopped inside the events loop on the first page it had to save
C3_StoppedOnFirstSave ==
    /\ pc = "crashed"
    /\ Len(FetchesOf("events")) = 1
    /\ Len(server["events"]) > 1
    /\ trace[Len(trace)].act = "save"
    /\ trace[Len(trace)].result = "AttributeError"

\* The last record of a batch that carries this key
LastWithKey(repo, records, key) ==
    records[CHOOSE i \in DOMAIN records :
                /\ records[i][KeyOf(repo)] = key
                /\ \A j \in DOMAIN records :
                        records[j][KeyOf(repo)] = key => j <= i]

\* C4: saving records on a healthy storage succeeds, and after it the
\* destination holds exactly one row per natural key saved, whose data fields
\* are those of the latest save of that key (so saving the same keys again
\* leaves the row count unchanged).
C4_OneRowPerKey ==
    (last.op = "save" /\ last.input.fault.at = "none") =>
        /\ last.outcome = Returned
        /\ \A i \in DOMAIN last.input.records :
            LET repo == last.input.repo
                key == last.input.records[i][KeyOf(repo)]
                held == {j \in DOMAIN table[repo] : table[repo][j][KeyOf(repo)] = key}
                latest == LastWithKey(repo, last.input.records, key)
            IN  /\ Cardinality(held) = 1
                /\ \A j \in held : \A c \in DataColumns(repo) :
                        table[repo][j][c] = latest[c]

\* A save of records on a healthy storage left the destination empty
C4_NothingSaved ==
    /\ last.op = "save"
    /\ last.input.fault.at = "none"
    /\ last.input.records # << >>
    /\ last.outcome.exc = "AttributeError"
    /\ table[last.input.repo] = << >>

\* The storage fails somewhere while a batch of n rows is written
StorageFails(fault, n) ==
    \/ fault.at \in {"connect", "commit"}
    \/ fault.at = "row" /\ fault.row <= n

\* C5: a save_many whose write fails on a storage error leaves the destination
\* with none of the batch's rows and raises exactly one persistence error.
C5_AllOrNothing ==
    [][(/\ last'.op = "save_many"
        /\ last'.input.records # << >>
        /\ StorageFails(last'.input.fault, Len(last'.input.records)))
       => /\ table' = table
          /\ last'.outcome = Raised("DatabaseSaveError", "pyodbc.Error")]_vars

\* A save_many on a failing storage raised something else than the
\* persistence error
C5_NoPersistenceError ==
    /\ last.op = "save_many"
    /\ last.input.fault.at = "row"
    /\ last.input.fault.row = Len(last.input.records)
    /\ Len(last.input.records) > 1
    /\ last.outcome.exc = "AttributeError"

\* C6: from_api of SeriesRecord, EventRecord and MarketRecord returns a record
\* for every input item, whatever fields are missing or malformed; it never
\* raises.
C6_FromApiTotal ==
    last.op = "from_api" => last.outcome = Returned

\* SeriesRecord.from_api raised on a mapping item
C6_SeriesMappingRaises ==
    /\ last.op = "from_api"
    /\ last.input.kind = "series"
    /\ last.input.item.shape = "mapping"
    /\ last.outcome.exc = "AttributeError"

\* C7: a storage failure during save_series, save_events or save_markets
\* surfaces as DatabaseSaveError carrying the storage error as its cause, and
\* as nothing else.
C7_DatabaseSaveError ==
    (/\ last.op = "save"
     /\ last.input.records # << >>
     /\ StorageFails(last.input.fault, Len(last.input.records)))
    => last.outcome = Raised("DatabaseSaveError", "pyodbc.Error")

\* A save on a failing storage raised AttributeError
C7_OtherException ==
    /\ last.op = "save"
    /\ last.input.records # << >>
    /\ last.input.fault.at = "connect"
    /\ last.outcome = Raised("AttributeError", "none")

\* C8: save_series, save_events and save_markets on an empty sequence return 0
\* without opening a connection or issuing a statement.
C8_EmptySaveReturnsZero ==
    (last.op = "save" /\ last.input.records = << >>) =>
        /\ last.outcome = Returned
        /\ last.value = 0
        /\ last.db = << >>

\* save_series of no records raised
C8_EmptySeriesRaises ==
    /\ last.op = "save"
    /\ last.input.repo = "series"
    /\ last.input.records = << >>
    /\ last.outcome.kind = "raise"

\* The four outcomes the specification lists for call
ListedOutcome ==
    \/ /\ last.outcome = Returned
       /\ last.input.reply.kind = "ok"
       /\ last.value = last.input.reply.response
       /\ Len(last.sdk) = 1
    \/ /\ last.outcome = Raised("AuthenticationConfigError", "none")
       /\ last.sdk = << >>
    \/ /\ last.outcome = Raised("KalshiAPIError", "ApiException")
       /\ last.input.reply.kind = "ApiException"
       /\ Len(last.sdk) = 1
    \/ /\ last.outcome = Raised(last.input.reply.kind, "none")
       /\ last.input.reply.kind \notin {"ok", "ApiException"}
       /\ Len(last.sdk) = 1

\* C9 as the specification states it: a call ends in exactly one of four ways:
\* the response returned unchanged; AuthenticationConfigError with no I/O;
\* KalshiAPIError wrapping the ApiException of an attempted call; or the
\* underlying operation's own exception, unwrapped.
C9_FourOutcomes ==
    last.op = "call" => ListedOutcome

\* C9, amended: a call ends in exactly one of five ways: the four listed, or
\* AttributeError, with no I/O and no invocation, when the SDK exposes no
\* operation of that name.
C9_FiveOutcomes ==
    last.op = "call" =>
        IF last.input.operation \in SdkOperations
        THEN ListedOutcome
        ELSE /\ last.outcome = Raised("AttributeError", "AttributeError")
             /\ last.sdk = << >>

\* A call whose endpoint raised ApiException ended in KalshiAPIError
C9_Wrapped ==
    /\ last.op = "call"
    /\ last.input.reply.kind = "ApiException"
    /\ Len(last.sdk) = 1
    /\ last.outcome = Raised("KalshiAPIError", "ApiException")

\* C10: every call and http_request logs one start and then exactly one
\* terminal entry, completion or failure and never both, whatever the outcome:
\* success, API failure, unexpected exception or precondition failure.
C10_StartThenOneTerminal ==
    last.op \in {"call", "http_request"} =>
        last.logs \in {<<"started", "completed">>, <<"started", "failed">>}

\* An http_request logged its start and nothing after it
C10_NoTerminalLog ==
    /\ last.op = "http_request"
    /\ last.logs = <<"started">>

\* C11: a call naming an operation the SDK client does not expose fails with
\* AttributeError, never with KalshiAPIError, and issues no network request; a
\* remote failure (ApiException) of an exposed operation is reported as
\* KalshiAPIError, never as AttributeError.
C11_UnknownOperationDistinct ==
    last.op = "call" =>
        /\ last.input.operation \notin SdkOperations =>
                /\ last.outcome = Raised("AttributeError", "AttributeError")
                /\ last.sdk = << >>
                /\ last.http = << >>
        /\ (last.input.operation \in SdkOperations
              /\ last.input.reply.kind = "ApiException"
              /\ last.sdk # << >>) =>
                last.outcome.exc = "KalshiAPIError"

\* A client with credentials was asked for an operation the SDK does not expose
C11_UnknownOperation ==
    /\ last.op = "call"
    /\ authEnabled
    /\ last.input.operation \notin SdkOperations
    /\ last.input.reply.kind = "ApiException"
    /\ last.outcome.exc = "AttributeError"

\* C12: in every reachable state of a client, auth_enabled is true exactly when
\* both the key identifier and the private key were present at construction,
\* and no call or http_request, successful or failing, changes it.
C12_AuthEnabledFixed ==
    /\ [](authEnabled <=> (apiKeyId /\ privateKeyPem))
    /\ [][authEnabled' = authEnabled]_vars

\* A client built with the key identifier alone has refused an authenticated
\* call and still has authentication disabled
C12_KeyIdAlone ==
    /\ apiKeyId
    /\ ~privateKeyPem
    /\ ~authEnabled
    /\ last.op = "call"
    /\ last.outcome.exc = "AuthenticationConfigError"

\* main() has ended, by returning or by an exception leaving it
MainEnded == pc \in {"done", "crashed"}

\* C13: in main(), whatever exception ends the sync of one resource (series,
\* events or markets), expected or not, the syncs of the other resources and
\* the final exchange-status call are still attempted: a run with credentials
\* ends only after it has fetched all three resources and made the final call.
C13_SyncsIsolated ==
    (MainEnded /\ authEnabled) =>
        /\ \A r \in Repositories : FetchesOf(r) # << >>
        /\ \E i \in DOMAIN trace : trace[i].act = "call"

\* An unexpected exception in the events sync ended main() before the markets
\* sync and the final call
C13_EventsFailureEndsRun ==
    /\ pc = "crashed"
    /\ FetchesOf("events") # << >>
    /\ trace[Len(trace)].act = "fetch"
    /\ trace[Len(trace)].resource = "events"
    /\ trace[Len(trace)].result = "RuntimeError"
    /\ FetchesOf("markets") = << >>

\* Two signing runs have both produced their headers
SignedTwice == last.op = "sign" /\ last.outcome = Returned

\* The two runs were given the same timestamp, method and path (the key is the
\* client's, the same in both)
SameSignInputs ==
    /\ last.input.first.now = last.input.second.now
    /\ last.input.first.method = last.input.second.method
    /\ UrlPath(last.input.first.url) = UrlPath(last.input.second.url)

SameSignature ==
    last.value.first["KALSHI-ACCESS-SIGNATURE"] =
        last.value.second["KALSHI-ACCESS-SIGNATURE"]

ParamsForwarded == last.op = "list_records" /\ last.sdk # << >>

\* The filters a service recognises, among those the caller passed
Recognised ==
    IF last.input.kind = "series"
    THEN DOMAIN last.input.filters \cap {"status"}
    ELSE DOMAIN last.input.filters \cap {"limit", "cursor", "status"}

\* C15: the parameters a fetch service forwards to the API client are exactly
\* the recognised filters whose value is neither null nor empty, with their
\* values unchanged; a null or empty filter is never forwarded, limit and
\* cursor included.
C15_OnlyNonEmptyForwarded ==
    ParamsForwarded =>
        last.sdk[1].params =
            [k \in {f \in Recognised :
                        /\ last.input.filters[f] # Null
                        /\ last.input.filters[f] # PyStr("")} |->
                last.input.filters[k]]

\* A service forwarded an empty cursor
C15_EmptyCursorForwarded ==
    /\ ParamsForwarded
    /\ last.input.kind = "events"
    /\ "cursor" \in DOMAIN last.input.filters
    /\ last.input.filters["cursor"] = PyStr("")
    /\ "cursor" \in DOMAIN last.sdk[1].params
    /\ last.sdk[1].params["cursor"] = PyStr("")

\* http_request issued its request and got a response or a transport failure
HttpAnswered ==
    /\ last.op = "http_request"
    /\ last.http # << >>
    /\ last.input.reply.kind \in {"response", "RequestException"}

\* C16: http_request returns a response only when the HTTP status is 2xx; for
\* every other status (1xx, 3xx, 4xx, 5xx) and every transport failure it
\* raises KalshiAPIError.
C16_Only2xxReturned ==
    HttpAnswered =>
        IF /\ last.input.reply.kind = "response"
           /\ last.input.reply.status >= 200
           /\ last.input.reply.status < 300
        THEN last.outcome = Returned /\ last.value = last.input.reply.status
        ELSE last.outcome = Raised("KalshiAPIError", "RequestException")

\* http_request returned a 304 response to its caller
C16_RedirectionReturned ==
    /\ HttpAnswered
    /\ last.input.reply.status = 304
    /\ last.outcome = Returned
    /\ last.value = 304

\* http_request issued its HTTP request
HttpIssued == last.op = "http_request" /\ last.http # << >>

\* C17 as the specification states it: every request issued with
\* authenticated=True carries the headers ACCESS-KEY, ACCESS-SIGNATURE and
\* ACCESS-TIMESTAMP computed by the signer; a request issued with
\* authenticated=False carries only the caller's headers.
C17_AccessHeaders ==
    HttpIssued =>
        IF last.input.authenticated
        THEN {"ACCESS-KEY", "ACCESS-SIGNATURE", "ACCESS-TIMESTAMP"}
                \subseteq DOMAIN last.http[1].headers
        ELSE last.http[1].headers = last.input.headers

\* C17, amended: every request issued with authenticated=True carries the
\* headers KALSHI-ACCESS-KEY, KALSHI-ACCESS-SIGNATURE and
\* KALSHI-ACCESS-TIMESTAMP as the signer computed them (the configured key
\* identifier, a signature, the signing timestamp), whatever the caller
\* supplied under those names, and keeps the caller's other headers; a request
\* issued with authenticated=False carries exactly the caller's headers.
C17_KalshiAccessHeaders ==
    HttpIssued =>
        LET sent == last.http[1].headers
            given == last.input.headers
            signed == {"KALSHI-ACCESS-KEY", "KALSHI-ACCESS-SIGNATURE",
                       "KALSHI-ACCESS-TIMESTAMP"}
        IN  IF last.input.authenticated
            THEN /\ DOMAIN sent = DOMAIN given \cup signed
                 /\ sent["KALSHI-ACCESS-KEY"].text = "api_key_id"
                 /\ sent["KALSHI-ACCESS-SIGNATURE"].signature # << >>
                 /\ sent["KALSHI-ACCESS-TIMESTAMP"].text = last.input.now
                 /\ \A h \in DOMAIN given \ signed : sent[h] = given[h]
            ELSE sent = given

\* An authenticated request went out with the signer's key header in place of
\* the one the caller supplied
C17_CallerHeaderOverridden ==
    /\ HttpIssued
    /\ last.input.authenticated
    /\ "KALSHI-ACCESS-KEY" \in DOMAIN last.input.headers
    /\ last.input.headers["KALSHI-ACCESS-KEY"].text = "caller"
    /\ last.http[1].headers["KALSHI-ACCESS-KEY"].text = "api_key_id"

\* A paged fetch service got a response from the API client on the path it
\* took: from the typed call, or from the raw call after a validation failure
ClientAnswered ==
    /\ last.op = "list_records"
    /\ last.input.kind \in Paged
    /\ authEnabled
    /\ \/ last.input.typed.kind = "ok"
       \/ last.input.typed.kind = "ValidationError" /\ last.input.raw.kind = "ok"

\* C18: for every response the API client returns without raising, on the
\* typed path or on the raw fallback path, list_event_records returns (records,
\* milestones, cursor-or-null) and list_market_records returns (records,
\* cursor-or-null); neither raises.
C18_AlwaysReturns ==
    ClientAnswered =>
        /\ last.outcome = Returned
        /\ last.value.cursor.t \in {"null", "str"}
        /\ last.input.kind = "events" => last.value.milestones.t = "items"

\* The raw body held null under the items key and the service raised TypeError
C18_NullItemsRaises ==
    /\ ClientAnswered
    /\ last.input.typed.kind = "ValidationError"
    /\ last.input.raw.response.data.text.wellformed
    /\ last.input.raw.response.data.text.document.t = "dict"
    /\ last.input.kind \in DOMAIN last.input.raw.response.data.text.document.v
    /\ last.input.raw.response.data.text.document.v[last.input.kind] = Null
    /\ last.outcome.exc = "TypeError"

\* The trace entry i is a page fetch of the events or markets sync on which
\* the typed call failed validation and the raw body was not JSON
UndecodablePage(i) ==
    /\ trace[i].act = "fetch"
    /\ trace[i].resource \in Paged
    /\ trace[i].mode = "undecodable"

PagedFetch == last.op = "list_records" /\ last.input.kind \in Paged

\* The typed and the raw operation of the resource fetched
TypedOperation ==
    IF last.input.kind = "events" THEN "get_events" ELSE "get_markets"

RawOperation ==
    IF last.input.kind = "events" THEN "get_events_without_preload_content"
    ELSE "get_markets_without_preload_content"

\* C20: one invocation of list_event_records or list_market_records makes
\* exactly one API client call when the typed call succeeds and exactly two
\* (the typed call, then one raw call) when the typed call fails schema
\* validation; after any other failure of the typed call it makes no raw call.
C20_OneFallbackAtMost ==
    PagedFetch =>
        /\ last.value.calls =
                IF authEnabled /\ last.input.typed.kind = "ValidationError"
                THEN <<TypedOperation, RawOperation>>
                ELSE <<TypedOperation>>
        /\ Len(last.sdk) <= Len(last.value.calls)
        /\ \A i \in DOMAIN last.sdk :
                last.sdk[i].operation = last.value.calls[i]

\* The typed call failed validation, the one raw call failed too, and the
\* service stopped there
C20_FallbackFailed ==
    /\ PagedFetch
    /\ authEnabled
    /\ last.input.typed.kind = "ValidationError"
    /\ last.input.raw.kind = "ApiException"
    /\ last.outcome.exc = "KalshiAPIError"
    /\ Len(last.value.calls) = 2
    /\ Len(last.sdk) = 2

\* C21: one call invokes the SDK operation at most once and one http_request
\* issues at most one HTTP request, whether the attempt succeeds or fails; a
\* failed attempt is raised to the caller without a second attempt.
C21_NoRetry ==
    /\ last.op = "call" =>
            /\ Len(last.sdk) <= 1
            /\ last.http = << >>
            /\ (last.sdk # << >> /\ last.input.reply.kind # "ok") =>
                    last.outcome.kind = "raise"
    /\ last.op = "http_request" =>
            /\ Len(last.http) <= 1
            /\ last.sdk = << >>
            /\ (/\ last.http # << >>
                /\ \/ last.input.reply.kind # "response"
                   \/ raise_for_status(last.input.reply.status)) =>
                    last.outcome.kind = "raise"

\* An http_request whose one request got a 500 response raised KalshiAPIError
C21_FailedOnce ==
    /\ last.op = "http_request"
    /\ Len(last.http) = 1
    /\ last.input.reply.kind = "response"
    /\ last.input.reply.status = 500
    /\ last.outcome.exc = "KalshiAPIError"

\* The add_time and update_time a save writes for a record: the record's own,
\* or the current time when it carries none
StampOf(record, field, now) ==
    IF Truthy(record[field]) THEN record[field] ELSE now

\* The first record of a batch that carries this key
FirstWithKey(repo, records, key) ==
    records[CHOOSE i \in DOMAIN records :
                /\ records[i][KeyOf(repo)] = key
                /\ \A j \in DOMAIN records :
                        records[j][KeyOf(repo)] = key => i <= j]

\* C22: after saves of records sharing a natural key, the row's AddTime is the
\* add_time of the save that first inserted the row; a save that matches an
\* existing row sets UpdateTime and the data columns and leaves AddTime as it
\* was, even when the incoming record is stamped with the current time.
C22_AddTimeKept ==
    [][(last'.op = "save" /\ last'.input.fault.at = "none") =>
        \A i \in DOMAIN last'.input.records :
            LET repo == last'.input.repo
                records == last'.input.records
                key == records[i][KeyOf(repo)]
                before == {j \in DOMAIN table[repo] :
                                table[repo][j][KeyOf(repo)] = key}
                after == {j \in DOMAIN table'[repo] :
                                table'[repo][j][KeyOf(repo)] = key}
            IN  /\ Cardinality(after) = 1
                /\ \A j \in after :
                    /\ table'[repo][j].UpdateTime =
                            StampOf(LastWithKey(repo, records, key),
                                    "update_time", last'.input.now)
                    /\ IF before = {}
                       THEN table'[repo][j].AddTime =
                                StampOf(FirstWithKey(repo, records, key),
                                        "add_time", last'.input.now)
                       ELSE \A b \in before :
                                table'[repo][j].AddTime = table[repo][b].AddTime]_vars

\* A save of two records sharing a key inserted no row
C22_NoRowToKeep ==
    /\ last.op = "save"
    /\ last.input.fault.at = "none"
    /\ Len(last.input.records) = 2
    /\ last.input.records[1][KeyOf(last.input.repo)] =
            last.input.records[2][KeyOf(last.input.repo)]
    /\ last.input.records[1] # last.input.records[2]
    /\ last.outcome.exc = "AttributeError"
    /\ table[last.input.repo] = << >>

\* The path component of the absolute URL each request URL stands for
PathOf(url) ==
    CASE url = <<"/", "markets">> ->
            <<"/", "trade-api", "/", "v2", "/", "markets">>
      [] url = <<"markets", "?", "limit=5">> ->
            <<"/", "trade-api", "/", "v2", "/", "markets">>
      [] url = <<"HTTPS://", "other.example", "/", "x", "/", "y", "?", "z=1">> ->
            <<"/", "x", "/", "y">>

\* The upper-cased form of each request method
UpperCased(method) == IF method = "post" THEN "POST" ELSE "GET"

\* C23: for every authenticated http_request the signed message is exactly
\* timestamp ++ upper-cased method ++ path, the path being that of the prepared
\* absolute URL without host and query string, and the timestamp in the
\* message is the string sent in the timestamp header.
C23_SignedMessage ==
    (HttpIssued /\ last.input.authenticated) =>
        LET sent == last.http[1].headers
            message == sent["KALSHI-ACCESS-SIGNATURE"].signature[1].message
        IN  /\ message = <<last.input.now, UpperCased(last.input.method)>>
                            \o PathOf(last.input.url)
            /\ message[1] = sent["KALSHI-ACCESS-TIMESTAMP"].text

\* An authenticated lower-case get of a relative URL with a query was signed
C23_RelativeUrlSigned ==
    /\ HttpIssued
    /\ last.input.authenticated
    /\ last.input.method = "get"
    /\ last.input.url = <<"markets", "?", "limit=5">>
    /\ last.http[1].headers["KALSHI-ACCESS-SIGNATURE"].signature[1].message =
            <<last.input.now, "GET", "/", "trade-api", "/", "v2", "/", "markets">>

\* EventRecord.from_api was applied to a mapping
EventFromMapping ==
    /\ last.op = "from_api"
    /\ last.input.kind = "events"
    /\ last.input.item.shape = "mapping"

\* The record's field equals the mapping's value under the key, null when the
\* key is absent
Copied(key) ==
    LET given == last.input.item.fields
    IN  last.value[key] = IF key \in DOMAIN given THEN given[key] ELSE Null

\* series_ticker, sub_title, title, status and markets are copied
OptionalFieldsCopied ==
    \A key \in {"series_ticker", "sub_title", "title", "status", "markets"} :
        Copied(key)

\* C24: for every mapping input, EventRecord.from_api yields a record whose
\* series_ticker, sub_title, title, status and markets equal the mapping's
\* value when present and null when absent, and whose event_ticker equals the
\* mapping's event_ticker.
C24_FieldsCopied ==
    EventFromMapping =>
        /\ last.outcome = Returned
        /\ OptionalFieldsCopied
        /\ Copied("event_ticker")

\* C24 with event_ticker as the code computes it, str(value or ""): the
\* mapping's value when it is a string, its text when it is another truthy
\* value, and the empty string when it is absent or null.
C24_EventTickerAsText ==
    EventFromMapping =>
        LET given == last.input.item.fields
            ticker == last.value.event_ticker
        IN  /\ last.outcome = Returned
            /\ OptionalFieldsCopied
            /\ ticker.t = "str"
            /\ IF "event_ticker" \notin DOMAIN given THEN ticker = PyStr("")
               ELSE CASE given.event_ticker.t = "str" ->
                            ticker = given.event_ticker
                      [] given.event_ticker.t = "null" -> ticker = PyStr("")
                      [] OTHER -> ticker = PyStr(given.event_ticker.v)

\* The mapping {event_ticker: "ABC-25", series_ticker: null, title: "Test"}
\* was converted
C24_Example ==
    /\ EventFromMapping
    /\ last.input.item.fields =
            [event_ticker |-> PyStr("ABC-25"), series_ticker |-> Null,
             title |-> PyStr("Test")]
    /\ last.value =
            [event_ticker |-> PyStr("ABC-25"), series_ticker |-> Null,
             sub_title |-> Null, title |-> PyStr("Test"), status |-> Null,
             markets |-> Null, add_time |-> Null, update_time |-> Null]

\* MarketRecord.from_api was applied
MarketFromApi == last.op = "from_api" /\ last.input.kind = "markets"

\* The decimal a price field stands for: the number itself, the number a
\* well-formed string denotes, null for anything else
PriceOf(given) ==
    CASE given = PyFloat("0.42") -> PyFloat("0.42")
      [] given = PyFloat("inf") -> PyFloat("inf")
      [] given = PyInt("7") -> PyFloat("7.0")
      [] given = PyStr("0.42") -> PyFloat("0.42")
      [] given = PyStr("7") -> PyFloat("7.0")
      [] OTHER -> Null

\* The integer a count field stands for: the number itself (a decimal
\* truncated), the number a well-formed string denotes, null for anything else
CountOf(given) ==
    CASE given = PyInt("7") -> PyInt("7")
      [] given = PyInt("10**400") -> PyInt("10**400")
      [] given = PyFloat("0.42") -> PyInt("0")
      [] given = PyStr("7") -> PyInt("7")
      [] OTHER -> Null

\* C25: in MarketRecord.from_api every numeric field is the parsed number when
\* the input value is a number or a well-formed numeric string, and null when
\* it is absent, of a non-numeric type or a malformed string; a malformed value
\* in one field never changes the result of any other field.
C25_NumericFields ==
    MarketFromApi =>
        LET given == last.input.item.fields
        IN  /\ last.outcome = Returned
            /\ last.value.yes_bid = PriceOf(Get(given, "yes_bid"))
            /\ last.value.volume = CountOf(Get(given, "volume"))
            /\ \A field \in {"yes_ask", "no_bid", "no_ask", "last_price",
                              "volume_24h", "cap_count"} :
                    last.value[field] = Null

\* A well-formed yes_bid was lost because volume was infinite
C25_InfiniteVolumeLosesYesBid ==
    /\ MarketFromApi
    /\ last.input.item.fields =
            [yes_bid |-> PyStr("0.42"), volume |-> PyFloat("inf")]
    /\ last.outcome = Raised("OverflowError", "none")
    /\ last.value = NoRecord

\* C26: call resolves the operation name before it checks the credentials: an
\* authenticated call of a name the SDK does not expose, on a client whose
\* authentication is not enabled, fails with AttributeError and not with
\* AuthenticationConfigError, which is raised only for names that resolve.
C26_ResolvedBeforeCredentials ==
    last.op = "call" =>
        /\ (/\ last.input.authenticated
            /\ ~authEnabled
            /\ last.input.operation \notin SdkOperations)
           => last.outcome.exc = "AttributeError"
        /\ last.outcome.exc = "AuthenticationConfigError"
           => last.input.operation \in SdkOperations

\* An authenticated call of an unexposed name on a client without credentials
C26_UnknownOperationUnauthenticated ==
    /\ last.op = "call"
    /\ last.input.authenticated
    /\ ~authEnabled
    /\ last.input.operation = "no_such_operation"
    /\ last.outcome = Raised("AttributeError", "AttributeError")
    /\ last.sdk = << >>

\* The final call of main()
StatusCall(event) ==
    event.act = "call" /\ event.resource = "get_exchange_status"

\* Without credentials main() does nothing but the one get_exchange_status call
SkippedWithoutCredentials ==
    (MainEnded /\ ~authEnabled) =>
        /\ Len(trace) = 1
        /\ StatusCall(trace[1])
        /\ \A r \in Repositories : table[r] = << >>

\* C27: when authentication is not enabled a run of main() issues no
\* authenticated call and no repository save and exactly one call, the
\* unauthenticated get_exchange_status; when authentication is enabled the
\* get_exchange_status call is still issued, after the three syncs.
C27_StatusCallAlways ==
    /\ SkippedWithoutCredentials
    /\ (MainEnded /\ authEnabled) =>
            /\ trace # << >>
            /\ StatusCall(trace[Len(trace)])
            /\ \A i \in 1..(Len(trace) - 1) : ~StatusCall(trace[i])

\* With credentials, main() ended in the series save without the final call
C27_EndedBeforeStatusCall ==
    /\ MainEnded
    /\ authEnabled
    /\ Len(trace) = 2
    /\ trace[2].act = "save"
    /\ trace[2].resource = "series"
    /\ trace[2].result = "AttributeError"
    /\ \A i \in DOMAIN trace : ~StatusCall(trace[i])

\* The fetches and saves main() made for a resource, in order
StepsOf(r) ==
    SelectSeq(trace, LAMBDA e : e.resource = r /\ e.act \in {"fetch", "save"})

\* The rows counted by the saves of a resource that succeeded
RECURSIVE RowsSaved(_)
RowsSaved(steps) ==
    IF steps = << >> THEN 0
    ELSE (IF Head(steps).act = "save" /\ Head(steps).result = "ok"
          THEN Head(steps).n ELSE 0) + RowsSaved(Tail(steps))

\* C28: in the events and markets sync loops every non-empty page is saved to
\* the repository before the next page is requested (a save failing only on a
\* storage error), so when the fetch or save of page k fails the rows of pages
\* 1..k-1 remain persisted and no page after k is requested for that resource.
C28_PagesSavedInOrder ==
    \A r \in Paged :
        LET steps == StepsOf(r)
        IN  /\ \A i \in DOMAIN steps :
                /\ (steps[i].act = "fetch" /\ steps[i].result = "ok"
                        /\ steps[i].n > 0) =>
                        /\ i < Len(steps)
                        /\ steps[i + 1].act = "save"
                        /\ steps[i + 1].result \in {"ok", "DatabaseSaveError"}
                        /\ steps[i + 1].result = "ok" =>
                                steps[i + 1].n = steps[i].n
                /\ steps[i].result # "ok" => i = Len(steps)
            /\ Len(table[r]) = RowsSaved(steps)

\* The first page of markets, of several, was fetched and never persisted
C28_MarketsPageNotSaved ==
    /\ pc = "crashed"
    /\ Len(server["markets"]) > 1
    /\ Len(StepsOf("markets")) = 2
    /\ StepsOf("markets")[1].n > 0
    /\ StepsOf("markets")[2].act = "save"
    /\ StepsOf("markets")[2].result = "AttributeError"
    /\ table["markets"] = << >>

=============================================================================
